---- MODULE Spec2Model ----
(***************************************************************************)
(* State-machine model of the streaming pipelines of langSwtich-TARA:      *)
(*   main              src/src/main.py              LanguageSwitchSystem   *)
(*   main_simple       src/src/main_simple.py       SimpleLanguageSwitch.. *)
(*   simple_working    src/src/simple_working.py    SimpleWorkingSystem    *)
(*   test_speech       src/src/test_speech.py       TestSpeechSystem       *)
(*   whisper_simple    src/src/whisper_simple.py    WhisperSpeechSystem    *)
(*   realtime_working  src/src/realtime_working.py  WorkingRealTimeSystem  *)
(*   approach_4        src/src/approach_4_realtime_fixed.py                *)
(* One run executes one of these programs; the variable sys says which.    *)
(* The external collaborators (capture device, language identification,    *)
(* Vosk / Whisper decoders, text to speech) are nondeterministic inputs.   *)
(***************************************************************************)
EXTENDS Integers, Sequences, FiniteSets, TLC

(***************************************************************************)
(* Bounds of the model.  Sizes that are 16000 / 4000 / 1024 in the source  *)
(* are scaled down: sample_rate, chunk_size (4000 frames per read in       *)
(* main*, simple_working, test_speech), rt_chunk_size (1024 frames per     *)
(* callback / read in realtime_working, approach_4, whisper_simple) and    *)
(* sub_chunk_size (the 4000-byte slices of realtime_working).  MaxFrames   *)
(* is the number of frames the device delivers in a run; MaxQueue is the   *)
(* capacity a bounded frame queue would have (audio_queue itself has none);*)
(* MaxReadErrors is the number of failed reads in a row that are followed; *)
(* MaxWords is the number of words of a line typed in text mode.           *)
(***************************************************************************)
MaxText == 4
MaxFrames == 7
MaxQueue == 2
sample_rate == 5
chunk_size == 2
rt_chunk_size == 3
sub_chunk_size == 12
MaxReadErrors == 3
MaxWords == 2

(***************************************************************************)
(* Texts are sequences of characters, so that str.strip() and len() are    *)
(* computed as Python computes them.                                       *)
(***************************************************************************)
\* a text of n letters
Word(n) == [i \in 1..n |-> "a"]

\* the texts a decoder reports: up to MaxText letters, bare or between blanks
RawTexts ==
    {Word(n) : n \in 0..MaxText}
        \cup {<<" ">> \o Word(n) \o <<" ">> : n \in 0..MaxText}

RECURSIVE lstrip(_)
lstrip(s) ==
    IF s = <<>> THEN <<>>
    ELSE IF Head(s) = " " THEN lstrip(Tail(s)) ELSE s

RECURSIVE rstrip(_)
rstrip(s) ==
    IF s = <<>> THEN <<>>
    ELSE IF s[Len(s)] = " " THEN rstrip(SubSeq(s, 1, Len(s) - 1)) ELSE s

strip(s) == rstrip(lstrip(s))

\* the literal returned by SimpleSpeechRecognizer when no Vosk model is loaded
Placeholder ==
    <<"[", "A", "u", "d", "i", "o", " ", "t", "r", "a", "n", "s", "c", "r",
      "i", "p", "t", "i", "o", "n", " ", "n", "o", "t", " ", "a", "v", "a",
      "i", "l", "a", "b", "l", "e", " ", "-", " ", "V", "o", "s", "k", " ",
      "m", "o", "d", "e", "l", " ", "n", "e", "e", "d", "e", "d", "]">>

Languages == {"en", "es"}

\* language codes a user may type after 'set': supported ones and one that is not
TypedLanguages == Languages \cup {"xx"}

\* confidences and thresholds in tenths: 7 is 0.7
Confidences == {0, 7, 8, 9}

Thresholds == {0, 7, 8}

VARIABLES
    sys,                  \* the program that runs
    confidence_threshold, \* detector.confidence_threshold (from the config)
    det_model,            \* LanguageDetector.model is loaded
    det_language,         \* SimpleLanguageDetector.current_language
    current_language,     \* <system>.current_language
    recognizer,           \* the decoder: [loaded, fed, stale]
    is_running,           \* is_running (main*) / is_recording (the others)
    stream,               \* the capture stream: "none", "open", "released",
                          \*   "closed", "misused"
    audio,                \* the PyAudio backend: "ready", "terminated",
                          \*   "misused" (terminated again)
    main_pc,              \* the main thread: "init", "failed", "loop",
                          \*   "stopping", "done"
    audio_buffer,         \* the loop's audio_buffer: its length, or its frames
    last_transcription,   \* the loop's last_transcription
    dispatched,           \* the texts of the last two dispatches (print + speak)
    ev,                   \* what the last loop iteration did
    captured,             \* frames the device has delivered to the callback
    audio_queue,          \* audio_queue: frames put and not yet got
    proc_pc,              \* the processing thread: "idle", "check", "get",
                          \*   "feed", "final", "done"
    buffer,               \* approach_4: the samples in process_audio_queue's buffer
    windows,              \* the windows handed on so far
    transcription,        \* realtime_working: transcription of the window in hand
    sub_i                 \* realtime_working: offset of the next sub-chunk

gateVars == <<confidence_threshold, det_model, det_language>>

threadVars == <<captured, audio_queue, proc_pc, buffer, windows, transcription, sub_i>>

vars == <<sys, gateVars, current_language, recognizer, is_running, stream, audio,
          main_pc, audio_buffer, last_transcription, dispatched, ev, threadVars>>

(***************************************************************************)
(* The decoder (KaldiRecognizer).  fed: it has accepted audio; stale: it   *)
(* accepted audio before a language switch that happened since; pending:   *)
(* it holds text of an utterance it has not committed yet (its last        *)
(* PartialResult was not empty).                                           *)
(***************************************************************************)
NoRecognizer ==
    [loaded |-> FALSE, fed |-> FALSE, stale |-> FALSE, pending |-> FALSE]

KaldiRecognizer ==
    [loaded |-> TRUE, fed |-> FALSE, stale |-> FALSE, pending |-> FALSE]

\* what a loop iteration did: the detector's answer (lang, conf), the
\* language before it (prev), and which steps of the pipeline it took:
\*   switched    the "Language switched" branch ran
\*   transcribed the recognizer was called
\*   accepted    a loaded decoder was handed the audio
\*   endpoint    AcceptWaveform returned true
\*   crossed     the decoder that took the audio was stale
\*   dispatch    the text was printed / spoken, kind says where it came from
\*   final       FinalResult gave a non-empty text
\*   failed      the detector's call raised (its answer is the fallback)
\*   fails       the failed reads in a row, this one included
\*   raised      the decoder's call of this chunk, or FinalResult of this
\*               window, raised
\*   werr        a decoder's call raised on this window (so far)
\*   best        the longest PartialResult text of the window so far (the
\*               earliest of that length)
\*   committed   a Result of the window so far gave a non-empty text
\*   chunks      the reads whose bytes made up the buffer processed
\*   text        the line typed in text mode
\*   num, den    the confidence num / den detected from text
\*   sample      a float sample of the file processed, in units of 2^-16
\*   pcm         the 16-bit sample made of it for the decoder
NoEvent ==
    [op |-> "none", lang |-> "en", conf |-> 0, prev |-> "en",
     switched |-> FALSE, transcribed |-> FALSE, accepted |-> FALSE,
     endpoint |-> FALSE, crossed |-> FALSE, dispatch |-> FALSE,
     kind |-> "none", final |-> FALSE, failed |-> FALSE, fails |-> 0,
     raised |-> FALSE, werr |-> FALSE, best |-> <<>>, committed |-> FALSE,
     chunks |-> 0, num |-> 0, den |-> 1, text |-> <<>>,
     sample |-> 0, pcm |-> 0]

\* the programs whose cleanup keeps the closed stream in self.stream
KeepsHandle == sys \in {"simple_working", "test_speech", "whisper_simple"}

\* 'if self.stream: self.stream.stop_stream(); self.stream.close()' on the
\* stream st, and what st is afterwards.  AudioHandler.stop_recording and the
\* stop_recording of realtime_working / approach_4 go on with
\* 'self.stream = None' ("released"); cleanup of simple_working,
\* test_speech and whisper_simple keeps the object ("closed"), which is
\* then stopped and closed again by the next call ("misused").
stop_stream_close(st) ==
    IF st = "open" THEN (IF KeepsHandle THEN "closed" ELSE "released")
    ELSE IF st = "closed" THEN "misused"
    ELSE st

\* 'self.audio.terminate()' on the backend a, and what a is afterwards: no
\* cleanup sets self.audio to None, so that 'if self.audio' stays true and a
\* later cleanup terminates the same backend again ("misused")
terminate(a) == IF a = "ready" THEN "terminated" ELSE "misused"

\* a value returned by a transcription call: None, or a text and where it
\* came from ("final": Result / FinalResult, "partial": PartialResult, ...)
None == [none |-> TRUE, text |-> <<>>, kind |-> "none"]

Text(t, k) == [none |-> FALSE, text |-> t, kind |-> k]

\* Python truthiness of an Optional[str]
Truthy(r) == ~r.none /\ r.text # <<>>

\* the record of the dispatches: the last two texts
Dispatch(log, text) ==
    IF Len(log) < 2 THEN Append(log, text) ELSE <<log[2], text>>

(***************************************************************************)
(* The Vosk decoder is an external collaborator.  One call sequence on a   *)
(* chunk has these outcomes: AcceptWaveform returns accept and the text    *)
(* then read (Result when accept, PartialResult otherwise) is raw, or a    *)
(* call raises.                                                            *)
(***************************************************************************)
DecoderOutcomes ==
    {[accept |-> a, raw |-> r, raises |-> FALSE] : a \in BOOLEAN, r \in RawTexts}
        \cup {[accept |-> FALSE, raw |-> <<>>, raises |-> TRUE]}

\* the decoder rec after the calls of outcome o: AcceptWaveform true ends
\* the utterance (Result commits its text); otherwise the decoder keeps the
\* utterance, whose text so far is what PartialResult reports
AcceptWaveform(rec, o) ==
    [rec EXCEPT !.fed = TRUE,
                !.pending = IF o.raises THEN rec.pending
                            ELSE IF o.accept THEN FALSE
                            ELSE strip(o.raw) # <<>>]

\* the try block shared by every transcribe_audio / process_audio_chunk /
\* process_audio_data: Result after AcceptWaveform, PartialResult otherwise
AcceptWaveformResult(o) ==
    IF o.raises THEN Text(<<>>, "error")
    ELSE IF o.accept THEN Text(strip(o.raw), "final")
    ELSE Text(strip(o.raw), "partial")

\* SpeechRecognizer.transcribe_audio
transcribe_audio(o) ==
    IF ~recognizer.loaded THEN Text(<<>>, "none") ELSE AcceptWaveformResult(o)

\* SimpleSpeechRecognizer.transcribe_audio
transcribe_audio_simple(o) ==
    IF ~recognizer.loaded THEN Text(Placeholder, "placeholder")
    ELSE AcceptWaveformResult(o)

(***************************************************************************)
(* language_detector.py / language_detector_simple.py                      *)
(***************************************************************************)
\* variants of is_confidence_high: a hard-coded 0.5, a strict comparison,
\* and no gate at all
is_confidence_high_fixed(confidence) == confidence >= 5

is_confidence_high_strict(confidence) == confidence > confidence_threshold

is_confidence_high_always(confidence) == confidence >= 0

is_confidence_high(confidence) == confidence >= confidence_threshold

\* LanguageDetector.detect_language: the answers the call may give
\* <<language, confidence, the call raised>>
detect_language ==
    IF ~det_model THEN {<<"en", 0, FALSE>>}
    ELSE (Languages \X Confidences \X {FALSE}) \cup {<<"en", 0, TRUE>>}

\* SimpleLanguageDetector.detect_language_simple without a text hint
detect_language_simple == {<<det_language, 7, FALSE>>}

\* SimpleLanguageDetector.set_language
set_language(language) ==
    IF language \in Languages THEN language ELSE det_language

(***************************************************************************)
(* LanguageSwitchSystem / SimpleLanguageSwitchSystem.process_audio_chunk   *)
(* on a buffer of nbytes bytes, with d the detector's answer and o the     *)
(* decoder's outcome: the values of the fields after the call, what it     *)
(* returns (ret) and what it did (ev).                                     *)
(***************************************************************************)
process_audio_chunk(nbytes, d, o) ==
    LET detected_lang == d[1]
        confidence == d[2]
        base == [NoEvent EXCEPT !.op = "chunk", !.prev = current_language,
                                !.lang = detected_lang, !.conf = confidence,
                                !.failed = d[3]]
    IN  IF nbytes = 0 \/ nbytes % 2 # 0
        THEN \* bytes_to_tensor gives an empty tensor: numel() == 0
             [current_language |-> current_language,
              recognizer |-> recognizer,
              ret |-> None,
              ev |-> [NoEvent EXCEPT !.op = "empty", !.prev = current_language]]
        ELSE IF is_confidence_high(confidence)
        THEN LET switch == detected_lang # current_language
                 rec1 == IF switch
                         THEN [recognizer EXCEPT !.stale = recognizer.fed]
                         ELSE recognizer
                 accepted == rec1.loaded
                 t == IF sys = "main" THEN transcribe_audio(o)
                                      ELSE transcribe_audio_simple(o)
             IN  [current_language |->
                      IF switch THEN detected_lang ELSE current_language,
                  recognizer |->
                      IF accepted THEN AcceptWaveform(rec1, o) ELSE rec1,
                  ret |-> t,
                  ev |-> [base EXCEPT !.switched = switch,
                                      !.transcribed = TRUE,
                                      !.accepted = accepted,
                                      !.endpoint = accepted /\ o.accept,
                                      !.crossed = accepted /\ rec1.stale,
                                      !.raised = accepted /\ o.raises,
                                      !.werr = accepted /\ o.raises]]
        ELSE [current_language |-> current_language,
              recognizer |-> recognizer,
              ret |-> None,
              ev |-> base]

\* the outcomes of the decoder in a call of process_audio_chunk / process_file
\* with the detector's answer d: the decoder is reached only behind the
\* confidence gate and only if a recognizer exists
DecoderCalls(d) ==
    IF recognizer.loaded /\ is_confidence_high(d[2])
    THEN DecoderOutcomes
    ELSE {[accept |-> FALSE, raw |-> <<>>, raises |-> FALSE]}

\* bytes returned by one stream.read(chunk_size): 16-bit mono frames
ChunkBytes == 2 * chunk_size

(***************************************************************************)
(* SimpleLanguageDetector._detect_from_text.  A text is a sequence of      *)
(* characters; a_grave stands for the letter a with a grave accent.  The   *)
(* languages hi, zh, ja and ko of the table have patterns in scripts that  *)
(* no text drawn here contains: they never get a score and are left out.   *)
(***************************************************************************)
\* str.lower(), on the characters the texts are made of
lower(c) == IF c = "T" THEN "t" ELSE c

text_lower(text) == [i \in 1..Len(text) |-> lower(text[i])]

\* 'pattern in text_lower' on strings: pattern occurs somewhere in the text
IsSubstring(pattern, text) ==
    \E i \in 1..(Len(text) - Len(pattern) + 1) :
        SubSeq(text, i, i + Len(pattern) - 1) = pattern

\* the keys of the dict 'patterns', in the order of the dict
PatternOrder == <<"en", "es", "fr", "de">>

patterns ==
    [
     en |-> <<
           <<"t", "h", "e">>, <<"a", "n", "d">>, <<"i", "s">>,
           <<"a", "r", "e">>, <<"w", "a", "s">>, <<"w", "e", "r", "e">>,
           <<"h", "a", "v", "e">>, <<"h", "a", "s">>, <<"h", "a", "d">> >>,
     es |-> <<
           <<"e", "l">>, <<"l", "a">>, <<"d", "e">>, <<"q", "u", "e">>,
           <<"y">>, <<"e", "n">>, <<"u", "n">>, <<"e", "s">>,
           <<"s", "e">>, <<"n", "o">> >>,
     fr |-> <<
           <<"l", "e">>, <<"l", "a">>, <<"d", "e">>, <<"e", "t">>,
           <<"a_grave">>, <<"u", "n">>, <<"i", "l">>, <<"q", "u", "e">>,
           <<"n", "e">>, <<"s", "e">> >>,
     de |-> <<
           <<"d", "e", "r">>, <<"d", "i", "e">>, <<"d", "a", "s">>,
           <<"u", "n", "d">>, <<"i", "s", "t">>, <<"s", "i", "n", "d">>,
           <<"h", "a", "b", "e", "n">>, <<"m", "i", "t">>,
           <<"v", "o", "n">> >>]

\* 'sum(1 for pattern in patterns_list if pattern in text_lower)'
pattern_score(lang, text) ==
    Cardinality({i \in 1..Len(patterns[lang]) :
                    IsSubstring(patterns[lang][i], text)})

\* variant of detect_from_text: the first language that has a score
detect_from_text_first_scored(text) ==
    LET t == text_lower(text)
        sc == [i \in 1..Len(PatternOrder) |-> pattern_score(PatternOrder[i], t)]
        n == [i \in 1..Len(PatternOrder) |-> Len(patterns[PatternOrder[i]])]
        scores == {i \in 1..Len(PatternOrder) : sc[i] > 0}
        best == CHOOSE i \in scores : \A j \in scores : i <= j
    IN  IF scores # {}
        THEN [lang |-> PatternOrder[best],
              num |-> IF 2 * sc[best] > n[best] THEN n[best] ELSE 2 * sc[best],
              den |-> n[best]]
        ELSE [lang |-> "en", num |-> 1, den |-> 2]

\* _detect_from_text: the language and the confidence num / den.  scores
\* holds the languages with score > 0, of value sc(i) / n(i); max() gives the
\* first key of the largest value; the confidence is min(2 * score, 1.0).
detect_from_text(text) ==
    LET t == text_lower(text)
        sc == [i \in 1..Len(PatternOrder) |-> pattern_score(PatternOrder[i], t)]
        n == [i \in 1..Len(PatternOrder) |-> Len(patterns[PatternOrder[i]])]
        scores == {i \in 1..Len(PatternOrder) : sc[i] > 0}
        best == CHOOSE i \in scores :
                    \A j \in scores :
                        \/ sc[i] * n[j] > sc[j] * n[i]
                        \/ sc[i] * n[j] = sc[j] * n[i] /\ i <= j
    IN  IF scores # {}
        THEN [lang |-> PatternOrder[best],
              num |-> IF 2 * sc[best] > n[best] THEN n[best] ELSE 2 * sc[best],
              den |-> n[best]]
        ELSE [lang |-> "en", num |-> 1, den |-> 2]

\* the words the typed texts are made of
Words ==
    {<<"T", "h", "e", "y">>,
     <<"l", "e">>,
     <<"k">>,
     <<"d", "e", "s", "e", "n", "l", "a", "c", "e">>}

RECURSIVE Join(_)
Join(ws) == IF Len(ws) = 1 THEN ws[1] ELSE ws[1] \o <<" ">> \o Join(Tail(ws))

\* what the user types in text mode, stripped: 1 to MaxWords words
InputTexts == {Join(ws) : ws \in UNION {[1..k -> Words] : k \in 1..MaxWords}}

\* _detect_from_text of every text typed (it reads no field of the detector)
detected_from == [text \in InputTexts |-> detect_from_text(text)]

(***************************************************************************)
(* main.py / main_simple.py                                                *)
(***************************************************************************)
IsGate == sys \in {"main", "main_simple"}

\* run_text_mode, the command 'set <lang>' (main_simple only)
SetCommand(lang) ==
    /\ sys = "main_simple"
    /\ main_pc = "init"
    /\ det_language' = set_language(lang)
    /\ current_language' = lang
    /\ ev' = [NoEvent EXCEPT !.op = "set", !.lang = lang, !.prev = current_language]
    /\ UNCHANGED <<sys, audio, confidence_threshold, det_model, recognizer, is_running,
                   stream, main_pc, audio_buffer, last_transcription, dispatched,
                   threadVars>>

\* detect_language_simple(text_hint = text): 'if text_hint' is false for ""
detect_language_simple_text(text_hint) ==
    IF text_hint # <<>> THEN detected_from[text_hint]
    ELSE [lang |-> det_language, num |-> 7, den |-> 10]

\* run_text_mode, a line that is neither a command nor empty: the language is
\* detected from the text and the text is handed to speak_text;
\* current_language is not assigned
TextInput ==
    /\ sys = "main_simple"
    /\ main_pc = "init"
    /\ \E text \in InputTexts :
        LET r == detect_language_simple_text(text)
        IN  ev' = [NoEvent EXCEPT !.op = "text", !.prev = current_language,
                                  !.lang = r.lang, !.num = r.num, !.den = r.den,
                                  !.text = text]
    /\ UNCHANGED <<sys, audio, gateVars, current_language, recognizer, is_running,
                   stream, main_pc, audio_buffer, last_transcription, dispatched,
                   threadVars>>

(***************************************************************************)
(* 16-bit PCM and normalized floats.  A float sample is written as the     *)
(* integer q that stands for q / 2^16: every value met here (x / 32768.0   *)
(* for a 16-bit x, 1.0, and their neighbours) is such a multiple and is    *)
(* exact in float32, as is its product with 32768.0.                       *)
(***************************************************************************)
\* the factor of '/ 32768.0' and '* 32768.0'
int16_scale == 32768

Int16 == (0 - int16_scale)..(int16_scale - 1)

\* bytes_to_tensor on one sample: astype(np.float32) / 32768.0
bytes_to_tensor(x) == 2 * x

\* the value of 'audio_tensor * 32768.0' cut towards zero, as astype does
trunc_scaled(q) == IF q >= 0 THEN q \div 2 ELSE 0 - ((0 - q) \div 2)

\* the 16 low bits of v read as a signed number
wrap_int16(v) == ((v + int16_scale) % (2 * int16_scale)) - int16_scale

\* the nearest 16-bit value
saturate_int16(v) ==
    IF v < 0 - int16_scale THEN 0 - int16_scale
    ELSE IF v > int16_scale - 1 THEN int16_scale - 1
    ELSE v

\* astype(np.int16) of the float v: the C conversion of a value outside the
\* range of the target is undefined; the builds of numpy keep the low bits
\* or saturate
astype_int16(v) ==
    IF v \in Int16 THEN {v} ELSE {wrap_int16(v), saturate_int16(v)}

\* '(audio_tensor * 32768.0).numpy().astype(np.int16)' on one sample
to_int16(q) == astype_int16(trunc_scaled(q))

\* 16-bit samples of a PCM file
Int16Samples == {0 - int16_scale, 0 - 1, 0, 1, int16_scale - 1}

\* the samples sf.read may return: those of a 16-bit file, normalized as
\* bytes_to_tensor does, and those of a float file in [-1, 1], with 1.0
FileSamples ==
    {bytes_to_tensor(x) : x \in Int16Samples}
        \cup {0 - (2 * int16_scale - 1), 0 - 1, 1,
              2 * int16_scale - 1, 2 * int16_scale}

\* LanguageSwitchSystem.process_file on a file with the sample q, d the
\* detector's answer and o the decoder's outcome: detection, the gate, the
\* conversion for Vosk and the transcription; the run ends
ProcessFile ==
    /\ sys = "main"
    /\ main_pc = "init"
    /\ main_pc' = "done"
    /\ \E q \in FileSamples, d \in detect_language :
        IF is_confidence_high(d[2])
        THEN \E pcm \in to_int16(q), o \in DecoderCalls(d) :
                 /\ recognizer' = IF recognizer.loaded
                                  THEN AcceptWaveform(recognizer, o)
                                  ELSE recognizer
                 /\ ev' = [NoEvent EXCEPT !.op = "file", !.conf = d[2],
                                          !.transcribed = TRUE,
                                          !.sample = q, !.pcm = pcm]
        ELSE \* "Low confidence in language detection": return
             /\ recognizer' = recognizer
             /\ ev' = [NoEvent EXCEPT !.op = "file", !.conf = d[2], !.sample = q]
    /\ UNCHANGED <<sys, audio, gateVars, current_language, is_running,
                   stream, audio_buffer, last_transcription, dispatched,
                   threadVars>>

\* AudioHandler.start_recording: audio.open succeeds (ok) or raises
ah_start_recording(ok) ==
    [ret |-> ok, stream |-> IF ok THEN "open" ELSE stream]

\* run_realtime up to the loop: audio_handler.start_recording() succeeds or fails
StartRealtime(ok) ==
    /\ IsGate
    /\ main_pc = "init"
    /\ LET r == ah_start_recording(ok)
       IN  /\ stream' = r.stream
           /\ IF r.ret
              THEN /\ is_running' = TRUE
                   /\ main_pc' = "loop"
              ELSE \* "Failed to start audio recording": return
                   /\ is_running' = is_running
                   /\ main_pc' = "failed"
    /\ ev' = NoEvent
    /\ UNCHANGED <<sys, audio, gateVars, current_language, recognizer, audio_buffer,
                   last_transcription, dispatched, threadVars>>

\* one iteration of the loop of run_realtime in which read_audio_chunk returns None
RealtimeReadNone ==
    /\ IsGate
    /\ main_pc = "loop"
    /\ is_running
    /\ ev.fails < MaxReadErrors
    /\ ev' = [NoEvent EXCEPT !.op = "noread", !.fails = ev.fails + 1]
    /\ UNCHANGED <<sys, audio, gateVars, current_language, recognizer, is_running,
                   stream, main_pc, audio_buffer, last_transcription, dispatched,
                   threadVars>>

\* the answers of the detector the system calls
DetectorAnswers ==
    IF sys = "main" THEN detect_language ELSE detect_language_simple

\* one iteration of the loop of run_realtime in which a chunk is read
RealtimeIteration ==
    /\ IsGate
    /\ main_pc = "loop"
    /\ is_running
    /\ stream = "open"
    /\ LET nbytes == audio_buffer + ChunkBytes
       IN  IF nbytes >= chunk_size * 4
           THEN \E d \in DetectorAnswers : \E o \in DecoderCalls(d) :
                LET r == process_audio_chunk(nbytes, d, o)
                    say == Truthy(r.ret) /\ strip(r.ret.text) # <<>>
                IN  /\ current_language' = r.current_language
                    /\ recognizer' = r.recognizer
                    /\ dispatched' = IF say THEN Dispatch(dispatched, r.ret.text)
                                            ELSE dispatched
                    /\ ev' = [r.ev EXCEPT !.dispatch = say,
                                          !.kind = IF say THEN r.ret.kind ELSE "none",
                                          !.chunks = nbytes \div ChunkBytes]
                    /\ audio_buffer' = 0
           ELSE /\ audio_buffer' = nbytes
                /\ ev' = [NoEvent EXCEPT !.op = "read"]
                /\ UNCHANGED <<current_language, recognizer, dispatched>>
    /\ UNCHANGED <<sys, audio, gateVars, is_running, stream, main_pc,
                   last_transcription, threadVars>>

\* KeyboardInterrupt in the loop of run_realtime, then cleanup()
RealtimeInterrupt ==
    /\ IsGate
    /\ main_pc = "loop"
    /\ is_running' = FALSE
    /\ stream' = stop_stream_close(stream)
    /\ audio' = terminate(audio)
    /\ main_pc' = "done"
    /\ ev' = NoEvent
    /\ UNCHANGED <<sys, gateVars, current_language, recognizer, audio_buffer,
                   last_transcription, dispatched, threadVars>>

\* a further call of cleanup() / audio_handler.stop_recording() after the run
GateCleanup ==
    /\ IsGate
    /\ main_pc \in {"done", "failed"}
    /\ is_running' = FALSE
    /\ stream' = stop_stream_close(stream)
    /\ audio' = terminate(audio)
    /\ ev' = [NoEvent EXCEPT !.op = "cleanup"]
    /\ UNCHANGED <<sys, gateVars, current_language, recognizer, main_pc,
                   audio_buffer, last_transcription, dispatched, threadVars>>

NextGate ==
    \/ GateCleanup
    \/ \E lang \in TypedLanguages : SetCommand(lang)
    \/ TextInput
    \/ ProcessFile
    \/ \E ok \in BOOLEAN : StartRealtime(ok)
    \/ RealtimeReadNone
    \/ RealtimeIteration
    \/ RealtimeInterrupt

(***************************************************************************)
(* simple_working.py / test_speech.py / whisper_simple.py: one thread      *)
(* reads the stream and processes what it read.                            *)
(***************************************************************************)
IsLoop == sys \in {"simple_working", "test_speech", "whisper_simple"}

\* SimpleWorkingSystem / TestSpeechSystem.process_audio_chunk
sw_process_audio_chunk(o) ==
    IF ~recognizer.loaded THEN Text(<<>>, "none") ELSE AcceptWaveformResult(o)

\* Whisper's transcribe: a text, or an exception
WhisperOutcomes ==
    {[raw |-> r, raises |-> FALSE] : r \in RawTexts}
        \cup {[raw |-> <<>>, raises |-> TRUE]}

\* WhisperSpeechSystem.buffer_size
whisper_buffer_size == sample_rate * 5

\* WhisperSpeechSystem.process_audio_buffer on a buffer of n samples.  The
\* first return gives one str where run() unpacks two values (unpack).
process_audio_buffer(n, w) ==
    IF ~recognizer.loaded \/ n < sample_rate
    THEN [unpack |-> FALSE, text |-> <<>>]
    ELSE IF w.raises THEN [unpack |-> TRUE, text |-> <<>>]
    ELSE [unpack |-> TRUE, text |-> strip(w.raw)]

\* run() up to the loop: the guard on the components, then audio.open
LoopStart(ok) ==
    /\ IsLoop
    /\ main_pc = "init"
    /\ IF ~recognizer.loaded
       THEN \* "System not properly initialized"
            /\ main_pc' = "failed"
            /\ UNCHANGED <<stream, is_running, audio>>
       ELSE IF ok
       THEN /\ stream' = "open"
            /\ is_running' = TRUE
            /\ main_pc' = "loop"
            /\ audio' = audio
       ELSE \* audio.open raised: finally cleanup()
            /\ stream' = stream
            /\ is_running' = FALSE
            /\ main_pc' = "failed"
            /\ audio' = terminate(audio)
    /\ ev' = NoEvent
    /\ UNCHANGED <<sys, gateVars, current_language, recognizer, audio_buffer,
                   last_transcription, dispatched, threadVars>>

\* an iteration in which stream.read raises: except Exception, sleep
LoopReadError ==
    /\ IsLoop
    /\ main_pc = "loop"
    /\ is_running
    /\ ev.fails < MaxReadErrors
    /\ ev' = [NoEvent EXCEPT !.op = "readerr", !.fails = ev.fails + 1]
    /\ UNCHANGED <<sys, audio, gateVars, current_language, recognizer, is_running,
                   stream, main_pc, audio_buffer, last_transcription, dispatched,
                   threadVars>>

\* SimpleWorkingSystem.run: one iteration of the loop
SimpleWorkingIteration(o) ==
    /\ sys = "simple_working"
    /\ main_pc = "loop"
    /\ is_running
    /\ LET t == sw_process_audio_chunk(o)
           say == t.text # <<>> /\ Len(t.text) > 2
       IN  /\ dispatched' = IF say THEN Dispatch(dispatched, t.text) ELSE dispatched
           /\ recognizer' = IF say THEN KaldiRecognizer
                                   ELSE AcceptWaveform(recognizer, o)
           /\ ev' = [NoEvent EXCEPT !.op = "chunk", !.transcribed = TRUE,
                                    !.accepted = TRUE, !.endpoint = o.accept,
                                    !.dispatch = say,
                                    !.kind = IF say THEN t.kind ELSE "none"]
    /\ UNCHANGED <<sys, audio, gateVars, current_language, is_running, stream, main_pc,
                   audio_buffer, last_transcription, threadVars>>

\* TestSpeechSystem.run: one iteration of the loop
TestSpeechIteration(o) ==
    /\ sys = "test_speech"
    /\ main_pc = "loop"
    /\ is_running
    /\ LET t == sw_process_audio_chunk(o)
           say == /\ t.text # <<>>
                  /\ t.text # last_transcription
                  /\ Len(t.text) > 2
       IN  /\ dispatched' = IF say THEN Dispatch(dispatched, t.text) ELSE dispatched
           /\ last_transcription' = IF say THEN t.text ELSE last_transcription
           /\ recognizer' = IF say THEN KaldiRecognizer
                                   ELSE AcceptWaveform(recognizer, o)
           /\ ev' = [NoEvent EXCEPT !.op = "chunk", !.transcribed = TRUE,
                                    !.accepted = TRUE, !.endpoint = o.accept,
                                    !.dispatch = say,
                                    !.kind = IF say THEN t.kind ELSE "none"]
    /\ UNCHANGED <<sys, audio, gateVars, current_language, is_running, stream, main_pc,
                   audio_buffer, threadVars>>

\* WhisperSpeechSystem.run: one iteration of the loop
WhisperIteration ==
    /\ sys = "whisper_simple"
    /\ main_pc = "loop"
    /\ is_running
    /\ LET n == audio_buffer + rt_chunk_size
       IN  IF n >= whisper_buffer_size
           THEN \E w \in WhisperOutcomes :
                LET r == process_audio_buffer(n, w)
                    say == r.unpack /\ r.text # <<>> /\ r.text # last_transcription
                IN  /\ dispatched' = IF say THEN Dispatch(dispatched, r.text)
                                            ELSE dispatched
                    /\ last_transcription' = IF say THEN r.text
                                                    ELSE last_transcription
                    \* a failed unpacking leaves the buffer as it is
                    /\ audio_buffer' = IF r.unpack THEN 0 ELSE n
                    /\ ev' = [NoEvent EXCEPT !.op = "chunk", !.transcribed = TRUE,
                                             !.dispatch = say,
                                             !.kind = IF say THEN "final" ELSE "none"]
           ELSE /\ audio_buffer' = n
                /\ ev' = [NoEvent EXCEPT !.op = "read"]
                /\ UNCHANGED <<dispatched, last_transcription>>
    /\ UNCHANGED <<sys, audio, gateVars, current_language, recognizer, is_running,
                   stream, main_pc, threadVars>>

\* KeyboardInterrupt in the loop of run(), then cleanup()
LoopInterrupt ==
    /\ IsLoop
    /\ main_pc = "loop"
    /\ is_running' = FALSE
    /\ stream' = stop_stream_close(stream)
    /\ audio' = terminate(audio)
    /\ main_pc' = "done"
    /\ ev' = NoEvent
    /\ UNCHANGED <<sys, gateVars, current_language, recognizer, audio_buffer,
                   last_transcription, dispatched, threadVars>>

\* a further call of cleanup() after the run
LoopCleanup ==
    /\ IsLoop
    /\ main_pc \in {"done", "failed"}
    /\ is_running' = FALSE
    /\ stream' = stop_stream_close(stream)
    /\ audio' = terminate(audio)
    /\ ev' = [NoEvent EXCEPT !.op = "cleanup"]
    /\ UNCHANGED <<sys, gateVars, current_language, recognizer, main_pc,
                   audio_buffer, last_transcription, dispatched, threadVars>>

NextLoop ==
    \/ LoopCleanup
    \/ \E ok \in BOOLEAN : LoopStart(ok)
    \/ LoopReadError
    \/ \E o \in DecoderOutcomes : SimpleWorkingIteration(o)
    \/ \E o \in DecoderOutcomes : TestSpeechIteration(o)
    \/ WhisperIteration
    \/ LoopInterrupt

(***************************************************************************)
(* realtime_working.py / approach_4_realtime_fixed.py: the audio callback  *)
(* puts frames on audio_queue, a processing thread gets them, the main     *)
(* thread waits for Ctrl+C.  A frame is known by its capture number (its   *)
(* samples by theirs), so that order and overlap can be read off.          *)
(***************************************************************************)
IsThreaded == sys \in {"realtime_working", "approach_4"}

\* the samples of the k-th frame the device delivers (k = 0, 1, ...)
Frame(k) == [i \in 1..rt_chunk_size |-> k * rt_chunk_size + i - 1]

\* bytes of one frame of realtime_working: paInt16, one channel
FrameBytes == 2 * rt_chunk_size

\* WorkingRealTimeSystem._process_audio_queue: buffer_size
rw_buffer_size == sample_rate * 3

\* RealTimeLanguageSwitch.process_audio_queue: buffer_size
a4_buffer_size == sample_rate * 2

\* len(audio_buffer) of realtime_working, whose buffer is kept as frames
BufferLen(buf) == Len(buf) * FrameBytes

\* variant of put_ready: a Queue(maxsize = MaxQueue), whose put waits for room
put_ready_bounded(q) == Len(q) < MaxQueue

\* audio_queue = queue.Queue(): no maxsize, so put(item) never waits for room
put_ready(q) == TRUE

\* variant of queue_get: the newest item first
queue_get_lifo(q) == [item |-> q[Len(q)], rest |-> SubSeq(q, 1, Len(q) - 1)]

\* audio_queue.get on a queue that is not empty: the oldest item
queue_get(q) == [item |-> Head(q), rest |-> Tail(q)]

\* variant of start_recording: the flag is set before the stream is opened
start_recording_flag_first(ok) ==
    [ret |-> ok, stream |-> IF ok THEN "open" ELSE stream, is_recording |-> TRUE]

\* start_recording of realtime_working / approach_4: audio is None or
\* audio.open raises (~ok), or the stream is opened and the flag set.  The
\* stream a successful open returns is already started, so the call of
\* start_stream that follows does nothing.
start_recording(ok) ==
    [ret |-> ok,
     stream |-> IF ok THEN "open" ELSE stream,
     is_recording |-> IF ok THEN TRUE ELSE is_running]

\* start_recording, then the processing thread is started
ThreadedStart(ok) ==
    /\ IsThreaded
    /\ main_pc = "init"
    /\ LET r == start_recording(ok)
       IN  /\ stream' = r.stream
           /\ is_running' = r.is_recording
           /\ IF r.ret
              THEN \* process_thread.start()
                   /\ main_pc' = "loop"
                   /\ proc_pc' = "check"
              ELSE \* 'if not self.start_recording(): return'
                   /\ main_pc' = "failed"
                   /\ proc_pc' = proc_pc
    /\ UNCHANGED <<sys, audio, gateVars, current_language, recognizer, audio_buffer,
                   last_transcription, dispatched, ev, captured, audio_queue,
                   buffer, windows, transcription, sub_i>>

\* variant of audio_callback: the callback also sets the language
audio_callback_sets_language(item) ==
    [audio_queue |-> IF is_running THEN Append(audio_queue, item) ELSE audio_queue,
     current_language |-> "es"]

\* what _audio_callback writes, in both threaded programs: the item is put
\* on the queue if the flag is set, and current_language is not assigned
audio_callback(item) ==
    [audio_queue |-> IF is_running THEN Append(audio_queue, item) ELSE audio_queue,
     current_language |-> current_language]

\* WorkingRealTimeSystem._audio_callback
RwAudioCallback ==
    /\ sys = "realtime_working"
    /\ stream = "open"
    /\ captured < MaxFrames
    /\ captured' = captured + 1
    /\ is_running => put_ready(audio_queue)
    /\ audio_queue' = audio_callback(captured).audio_queue
    /\ current_language' = audio_callback(captured).current_language
    /\ UNCHANGED <<sys, audio, gateVars, recognizer, is_running,
                   stream, main_pc, audio_buffer, last_transcription, dispatched,
                   ev, proc_pc, buffer, windows, transcription, sub_i>>

\* RealTimeLanguageSwitch._audio_callback
A4AudioCallback ==
    /\ sys = "approach_4"
    /\ stream = "open"
    /\ captured < MaxFrames
    /\ captured' = captured + 1
    /\ is_running => put_ready(audio_queue)
    /\ audio_queue' = audio_callback(Frame(captured)).audio_queue
    /\ current_language' = audio_callback(Frame(captured)).current_language
    /\ UNCHANGED <<sys, audio, gateVars, recognizer, is_running,
                   stream, main_pc, audio_buffer, last_transcription, dispatched,
                   ev, proc_pc, buffer, windows, transcription, sub_i>>

\* Ctrl+C in the wait loop of run_realtime; stop_recording clears the flag
ThreadedInterrupt ==
    /\ IsThreaded
    /\ main_pc = "loop"
    /\ is_running' = FALSE
    /\ main_pc' = "stopping"
    /\ UNCHANGED <<sys, audio, gateVars, current_language, recognizer, stream,
                   audio_buffer, last_transcription, dispatched, ev, threadVars>>

\* the rest of stop_recording: the stream is stopped and closed
ThreadedStopStream ==
    /\ IsThreaded
    /\ main_pc = "stopping"
    /\ stream' = stop_stream_close(stream)
    /\ audio' = IF sys = "realtime_working" THEN terminate(audio) ELSE audio
    /\ main_pc' = "done"
    /\ UNCHANGED <<sys, gateVars, current_language, recognizer, is_running,
                   audio_buffer, last_transcription, dispatched, ev, threadVars>>

\* variant of loop_test: 'while True'
loop_test_forever == TRUE

\* 'while self.is_recording'
loop_test == is_running

\* the loop test of either processing thread.  transcription is assigned ""
\* at the start of every window of realtime_working and read in that window
\* only: what the last window left in it is dropped here.
ProcCheck ==
    /\ IsThreaded
    /\ proc_pc = "check"
    /\ proc_pc' = IF loop_test THEN "get" ELSE "done"
    /\ transcription' = Text(<<>>, "none")
    /\ ev' = NoEvent
    /\ UNCHANGED <<sys, audio, gateVars, current_language, recognizer, is_running,
                   stream, main_pc, audio_buffer, last_transcription, dispatched,
                   captured, audio_queue, buffer, windows, sub_i>>

(***************************************************************************)
(* WorkingRealTimeSystem._process_audio_queue                              *)
(***************************************************************************)
\* variant of feed_sub_chunk: an exception empties the transcription
feed_sub_chunk_raise_clears(tr, o) ==
    IF o.raises THEN Text(<<>>, "none")
    ELSE IF o.accept
    THEN LET text == strip(o.raw)
         IN  IF text # <<>> THEN Text(text, "final") ELSE tr
    ELSE LET partial == strip(o.raw)
         IN  IF partial # <<>> /\ Len(partial) > Len(tr.text)
             THEN Text(partial, "partial") ELSE tr

\* variant of feed_sub_chunk: the latest partial, whatever its length
feed_sub_chunk_last_partial(tr, o) ==
    IF o.raises THEN tr
    ELSE IF o.accept
    THEN LET text == strip(o.raw)
         IN  IF text # <<>> THEN Text(text, "final") ELSE tr
    ELSE LET partial == strip(o.raw)
         IN  IF partial # <<>> THEN Text(partial, "partial") ELSE tr

\* the body of the loop over the sub-chunks: tr is transcription before
feed_sub_chunk(tr, o) ==
    IF o.raises THEN tr
    ELSE IF o.accept
    THEN LET text == strip(o.raw)
         IN  IF text # <<>> THEN Text(text, "final") ELSE tr
    ELSE LET partial == strip(o.raw)
         IN  IF partial # <<>> /\ Len(partial) > Len(tr.text)
             THEN Text(partial, "partial") ELSE tr

\* FinalResult of the window's decoder: a text, or an exception
FinalOutcomes ==
    {[raw |-> r, raises |-> FALSE] : r \in RawTexts}
        \cup {[raw |-> <<>>, raises |-> TRUE]}

\* variant of final_result: the final text only fills an empty transcription
final_result_no_supersede(tr, f) ==
    IF f.raises THEN tr
    ELSE LET final_text == strip(f.raw)
         IN  IF final_text # <<>> /\ tr.text = <<>>
             THEN Text(final_text, "final") ELSE tr

\* 'Get final result': tr is transcription before
final_result(tr, f) ==
    IF f.raises THEN tr
    ELSE LET final_text == strip(f.raw)
         IN  IF final_text # <<>> THEN Text(final_text, "final") ELSE tr

\* variants of rw_should_dispatch: without the comparison with
\* last_transcription, and with the length test off by one
rw_should_dispatch_no_dedup(tr) ==
    tr.text # <<>> /\ Len(tr.text) > 2

rw_should_dispatch_short(tr) ==
    tr.text # <<>> /\ tr.text # last_transcription /\ Len(tr.text) >= 2

\* the test that guards print + speak_text
rw_should_dispatch(tr) ==
    tr.text # <<>> /\ tr.text # last_transcription /\ Len(tr.text) > 2

\* audio_queue.get, the buffer test and the set-up of the window's decoder
RwProcGet(ctor_raises) ==
    /\ sys = "realtime_working"
    /\ proc_pc = "get"
    /\ IF audio_queue = <<>>
       THEN \* queue.Empty after the timeout
            /\ proc_pc' = "check"
            /\ UNCHANGED <<audio_queue, audio_buffer, windows, transcription, sub_i>>
       ELSE LET got == queue_get(audio_queue)
                buf == Append(audio_buffer, got.item)
            IN  /\ audio_queue' = got.rest
                /\ IF BufferLen(buf) < rw_buffer_size
                   THEN /\ audio_buffer' = buf
                        /\ proc_pc' = "check"
                        /\ UNCHANGED <<windows, transcription, sub_i>>
                   ELSE IF ~recognizer.loaded
                   THEN \* "No Vosk recognizer"
                        /\ audio_buffer' = <<>>
                        /\ proc_pc' = "check"
                        /\ UNCHANGED <<windows, transcription, sub_i>>
                   ELSE IF ctor_raises
                   THEN \* KaldiRecognizer(...) raised: the outer except
                        /\ audio_buffer' = buf
                        /\ proc_pc' = "check"
                        /\ UNCHANGED <<windows, transcription, sub_i>>
                   ELSE /\ audio_buffer' = buf
                        /\ windows' = Append(windows, buf)
                        /\ transcription' = Text(<<>>, "none")
                        /\ sub_i' = 0
                        /\ proc_pc' = "feed"
    /\ UNCHANGED <<sys, audio, gateVars, current_language, recognizer, is_running,
                   stream, main_pc, last_transcription, dispatched, ev, captured,
                   buffer>>

\* one sub-chunk of the window is given to the window's decoder
RwProcFeed(o) ==
    /\ sys = "realtime_working"
    /\ proc_pc = "feed"
    /\ transcription' = feed_sub_chunk(transcription, o)
    /\ sub_i' = sub_i + sub_chunk_size
    /\ proc_pc' = IF sub_i + sub_chunk_size < BufferLen(audio_buffer)
                  THEN "feed" ELSE "final"
    /\ LET before == ev
           partial == IF ~o.raises /\ ~o.accept THEN strip(o.raw) ELSE <<>>
       IN  ev' = [NoEvent EXCEPT
                     !.op = "sub",
                     !.werr = before.werr \/ o.raises,
                     !.best = IF Len(partial) > Len(before.best)
                              THEN partial ELSE before.best,
                     !.committed = before.committed
                                   \/ (~o.raises /\ o.accept /\ strip(o.raw) # <<>>)]
    /\ UNCHANGED <<sys, audio, gateVars, current_language, recognizer, is_running,
                   stream, main_pc, audio_buffer, last_transcription, dispatched,
                   captured, audio_queue, buffer, windows>>

\* FinalResult, the dispatch and the reset of the buffer.  speak_text calls
\* tts_engine.runAndWait(), which returns when the playback is over: the thread
\* stays at "speak" until RwSpeakDone (the engine is taken as built; without
\* one speak_text returns at once).  The writes of the thread's own locals
\* last_transcription and audio_buffer, which follow speak_text, are taken
\* with this step: no other thread reads them.
RwProcFinal(f) ==
    /\ sys = "realtime_working"
    /\ proc_pc = "final"
    /\ LET tr == final_result(transcription, f)
           say == rw_should_dispatch(tr)
       IN  /\ transcription' = tr
           /\ dispatched' = IF say THEN Dispatch(dispatched, tr.text) ELSE dispatched
           /\ last_transcription' = IF say THEN tr.text ELSE last_transcription
           /\ ev' = [NoEvent EXCEPT !.op = "window", !.transcribed = TRUE,
                                    !.accepted = TRUE, !.dispatch = say,
                                    !.kind = IF say THEN tr.kind ELSE "none",
                                    !.final = ~f.raises /\ strip(f.raw) # <<>>,
                                    !.raised = f.raises,
                                    !.werr = ev.werr \/ f.raises,
                                    !.best = ev.best,
                                    !.committed = ev.committed]
           /\ proc_pc' = IF say THEN "speak" ELSE "check"
    /\ audio_buffer' = <<>>
    /\ UNCHANGED <<sys, audio, gateVars, current_language, recognizer, is_running,
                   stream, main_pc, captured, audio_queue, buffer, windows, sub_i>>

\* runAndWait() returns: the playback of the response is over
RwSpeakDone ==
    /\ sys = "realtime_working"
    /\ proc_pc = "speak"
    /\ proc_pc' = "check"
    /\ UNCHANGED <<sys, audio, gateVars, current_language, recognizer, is_running,
                   stream, main_pc, audio_buffer, last_transcription, dispatched,
                   ev, captured, audio_queue, buffer, windows, transcription,
                   sub_i>>

(***************************************************************************)
(* RealTimeLanguageSwitch.process_audio_queue                              *)
(***************************************************************************)
\* buffer[:buffer_size]
a4_window(buf) == SubSeq(buf, 1, a4_buffer_size)

\* variant of a4_keep: the buffer restarts after the window (no overlap)
a4_keep_no_overlap(buf) == SubSeq(buf, a4_buffer_size + 1, Len(buf))

\* variant of a4_keep: one sample more is dropped
a4_keep_skips_sample(buf) == SubSeq(buf, (a4_buffer_size \div 2) + 2, Len(buf))

\* buffer[buffer_size//2:]
a4_keep(buf) == SubSeq(buf, (a4_buffer_size \div 2) + 1, Len(buf))

\* SimpleRealTimeProcessor.process_audio: 'if confidence > 0.6' (in tenths).
\* No step evaluates it: the statement before it raises, see process_audio.
a4_gate(confidence) == confidence > 6

\* the module imports of approach_4_realtime_fixed.py bind no name torch
\* ('import torch' in main() binds a local of main)
torch_imported == FALSE

\* SimpleRealTimeProcessor.process_audio on a window, with o the outcome of
\* the decoder if it is called: torch.tensor(audio_data) is evaluated first,
\* and a NameError ends the try block in 'except Exception'.  called: the
\* recognizer was invoked; say: the transcript was printed and spoken.
process_audio(o) ==
    LET quiet == [current_language |-> current_language, called |-> FALSE,
                  say |-> FALSE, raised |-> FALSE]
        t == transcribe_audio_simple(o)
    IN  IF ~torch_imported THEN [quiet EXCEPT !.raised = TRUE]
        ELSE IF a4_gate(7)
        THEN [current_language |-> det_language,
              called |-> TRUE,
              say |-> Truthy(t) /\ Len(strip(t.text)) > 3,
              raised |-> FALSE]
        ELSE quiet

\* audio_queue.get, buffer.extend, and the window handed to the callback,
\* SimpleRealTimeProcessor.process_audio; o is what the recognizer answers
\* for the window
A4ProcGet(o) ==
    /\ sys = "approach_4"
    /\ proc_pc = "get"
    /\ IF audio_queue = <<>>
       THEN UNCHANGED <<audio_queue, buffer, windows, current_language,
                        dispatched, ev>>
       ELSE LET got == queue_get(audio_queue)
                buf == buffer \o got.item
            IN  /\ audio_queue' = got.rest
                /\ IF Len(buf) >= a4_buffer_size
                   THEN LET r == process_audio(o)
                            text == transcribe_audio_simple(o).text
                        IN  /\ windows' = Append(windows, a4_window(buf))
                            /\ buffer' = a4_keep(buf)
                            /\ current_language' = r.current_language
                            /\ dispatched' = IF r.say
                                             THEN Dispatch(dispatched, text)
                                             ELSE dispatched
                            /\ ev' = [NoEvent EXCEPT !.op = "callback",
                                                     !.text = text,
                                                     !.transcribed = r.called,
                                                     !.dispatch = r.say,
                                                     !.raised = r.raised]
                   ELSE /\ buffer' = buf
                        /\ UNCHANGED <<windows, current_language, dispatched, ev>>
    /\ proc_pc' = "check"
    /\ UNCHANGED <<sys, audio, gateVars, recognizer, is_running,
                   stream, main_pc, audio_buffer, last_transcription,
                   captured, transcription, sub_i>>

\* a further call of stop_recording() / cleanup() after run_realtime: the
\* cleanup() that main() calls in its finally block
ThreadedCleanup ==
    /\ IsThreaded
    /\ main_pc \in {"done", "failed"}
    /\ is_running' = FALSE
    /\ stream' = stop_stream_close(stream)
    /\ audio' = terminate(audio)
    /\ UNCHANGED <<sys, gateVars, current_language, recognizer, main_pc,
                   audio_buffer, last_transcription, dispatched, ev, threadVars>>

NextThreaded ==
    \/ ThreadedCleanup
    \/ \E ok \in BOOLEAN : ThreadedStart(ok)
    \/ RwAudioCallback
    \/ A4AudioCallback
    \/ ThreadedInterrupt
    \/ ThreadedStopStream
    \/ ProcCheck
    \/ \E c \in BOOLEAN : RwProcGet(c)
    \/ \E o \in DecoderOutcomes : RwProcFeed(o)
    \/ \E f \in FinalOutcomes : RwProcFinal(f)
    \/ RwSpeakDone
    \/ \E o \in DecoderOutcomes : A4ProcGet(o)

(***************************************************************************)
(* Init: the state after the constructor of the chosen system.             *)
(***************************************************************************)
InitCommon ==
    /\ current_language = "en"
    /\ det_language = "en"
    /\ is_running = FALSE
    /\ stream = "none"
    /\ audio = "ready"
    /\ main_pc = "init"
    /\ audio_buffer = IF sys = "realtime_working" THEN <<>> ELSE 0
    /\ last_transcription = <<>>
    /\ dispatched = <<>>
    /\ ev = NoEvent
    /\ captured = 0
    /\ audio_queue = <<>>
    /\ proc_pc = "idle"
    /\ buffer = <<>>
    /\ windows = <<>>
    /\ transcription = Text(<<>>, "none")
    /\ sub_i = 0

InitMain ==
    /\ sys = "main"
    /\ confidence_threshold \in Thresholds
    /\ det_model \in BOOLEAN
    /\ recognizer \in {NoRecognizer, KaldiRecognizer}
    /\ InitCommon

InitMainSimple ==
    /\ sys = "main_simple"
    /\ confidence_threshold \in Thresholds
    /\ det_model = FALSE
    /\ recognizer \in {NoRecognizer, KaldiRecognizer}
    /\ InitCommon

InitLoop ==
    /\ sys \in {"simple_working", "test_speech", "whisper_simple"}
    /\ confidence_threshold = 8
    /\ det_model = FALSE
    /\ recognizer \in {NoRecognizer, KaldiRecognizer}
    /\ InitCommon

InitThreaded ==
    /\ sys \in {"realtime_working", "approach_4"}
    /\ confidence_threshold = 8
    /\ det_model = FALSE
    /\ recognizer \in {NoRecognizer, KaldiRecognizer}
    /\ InitCommon

Init == InitMain \/ InitMainSimple \/ InitLoop \/ InitThreaded

Next == NextGate \/ NextLoop \/ NextThreaded

Spec == Init /\ [][Next]_vars

\* the steps of the processing thread of realtime_working / approach_4
ProcThread ==
    \/ ProcCheck
    \/ \E c \in BOOLEAN : RwProcGet(c)
    \/ \E o \in DecoderOutcomes : RwProcFeed(o)
    \/ \E f \in FinalOutcomes : RwProcFinal(f)
    \/ RwSpeakDone
    \/ \E o \in DecoderOutcomes : A4ProcGet(o)

\* The threaded programs with a processing thread that keeps being
\* scheduled: every call it makes returns (get returns or raises queue.Empty
\* after its 0.1 s timeout), so a step it can take is taken.
SpecThreaded == InitThreaded /\ [][NextThreaded]_vars /\ WF_vars(ProcThread)

(***************************************************************************)
(* The claims.                                                             *)
(***************************************************************************)
Last(seq) == seq[Len(seq)]

\* C1: in process_audio_chunk of main / main_simple, current_language
\* changes only in a step whose detected language differs from it and whose
\* confidence is >= confidence_threshold; a window below the threshold
\* leaves current_language unchanged.
C1_SwitchOnlyOnHighConfidence ==
    [][(IsGate /\ main_pc = "loop")
        => /\ (current_language' # current_language)
                => /\ ev'.op = "chunk"
                   /\ ev'.lang # current_language
                   /\ ev'.conf >= confidence_threshold
                   /\ current_language' = ev'.lang
           /\ (ev'.op = "chunk" /\ ev'.conf < confidence_threshold)
                => current_language' = current_language]_vars

\* a window of a different language above the threshold has switched the language
C1_Witness ==
    /\ IsGate
    /\ ev.op = "chunk"
    /\ ev.lang # ev.prev
    /\ ev.conf >= confidence_threshold
    /\ current_language = ev.lang

C4_NoDecoderAcrossSwitch ==
    (sys = "main" /\ ev.op = "chunk") => ~ev.crossed

\* C5: in realtime_working, test_speech and whisper_simple no two
\* consecutive dispatches carry the same text, and a transcript equal to
\* the last dispatched one is not dispatched again.
C5_NoRepeatedDispatch ==
    (sys \in {"realtime_working", "test_speech", "whisper_simple"})
        => /\ Len(dispatched) = 2 => dispatched[1] # dispatched[2]
           /\ dispatched # <<>> => last_transcription = Last(dispatched)

\* the same transcript came again for the next window and was not dispatched
C5_Witness ==
    /\ sys = "realtime_working"
    /\ ev.op = "window"
    /\ proc_pc = "check"
    /\ ~ev.dispatch
    /\ Len(transcription.text) > 2
    /\ transcription.text = last_transcription
    /\ Last(dispatched) = transcription.text

\* C6: in realtime_working and simple_working a transcript of at most 2
\* characters is never dispatched.
C6_MinimumLength ==
    (sys \in {"realtime_working", "simple_working"})
        => \A i \in 1..Len(dispatched) : Len(dispatched[i]) > 2

\* a window gave a transcript of one or two characters and nothing was dispatched
C6_Witness ==
    /\ sys = "realtime_working"
    /\ ev.op = "window"
    /\ proc_pc = "check"
    /\ transcription.text # <<>>
    /\ Len(transcription.text) <= 2
    /\ ~ev.dispatch

C8_DispatchUpdatesAndResets ==
    (sys \in {"test_speech", "simple_working", "main", "main_simple"} /\ ev.dispatch)
        => /\ last_transcription = Last(dispatched)
           /\ ~recognizer.fed

\* C9: in approach_4 every window after the first starts with the last half
\* window of the one before it, and the first window starts at the first
\* sample (no overlap).
C9_Overlap ==
    (sys = "approach_4")
        => /\ \A k \in 2..Len(windows) :
                SubSeq(windows[k], 1, a4_buffer_size \div 2)
                    = SubSeq(windows[k - 1],
                             a4_buffer_size - (a4_buffer_size \div 2) + 1,
                             a4_buffer_size)
           /\ windows # <<>> => windows[1] = [i \in 1..a4_buffer_size |-> i - 1]

\* three windows have been handed on
C9_Witness ==
    /\ sys = "approach_4"
    /\ Len(windows) >= 3

\* C10 as stated: when the loop has ended, what was buffered has been
\* handed on as one last window.
C10_FlushOnShutdown ==
    (IsThreaded /\ proc_pc = "done")
        => /\ (sys = "approach_4" /\ buffer # <<>>)
                => (windows # <<>> /\ Last(windows) = buffer)
           /\ (sys = "realtime_working" /\ audio_buffer # <<>>)
                => (windows # <<>> /\ Last(windows) = audio_buffer)

\* C11 as stated: the frame queue never holds more than its capacity
\* (MaxQueue frames), however slow the processing thread is.
C11_QueueBounded ==
    IsThreaded => Len(audio_queue) <= MaxQueue

\* C12: while the stream is open the audio callback can always run to its
\* end: its put never waits, whatever the queue holds and wherever the
\* processing thread is.
C12_PutNeverBlocks ==
    (IsThreaded /\ stream = "open" /\ captured < MaxFrames)
        => ENABLED (RwAudioCallback \/ A4AudioCallback)

\* the callback has enqueued more than MaxQueue frames while the processing
\* thread has taken none
C12_Witness ==
    /\ IsThreaded
    /\ is_running
    /\ Len(audio_queue) > MaxQueue
    /\ Len(audio_queue) = captured

Increasing(s) == \A i \in 1..(Len(s) - 1) : s[i] < s[i + 1]

Consecutive(s) == \A i \in 1..(Len(s) - 1) : s[i + 1] = s[i] + 1

RECURSIVE Flatten(_)
Flatten(ss) == IF ss = <<>> THEN <<>> ELSE Head(ss) \o Flatten(Tail(ss))

\* C13: frames leave the queue in the order the callback put them and the
\* windows follow capture order: in realtime_working the frames of the
\* windows, then of the buffer, then of the queue are in increasing capture
\* order; in approach_4 every window is a run of consecutive samples, the
\* windows start at increasing samples, and the buffer followed by the
\* queue is a run of consecutive samples.
C13_CaptureOrder ==
    /\ (sys = "realtime_working")
         => Increasing(Flatten(windows)
                       \o (IF proc_pc \in {"feed", "final"} THEN <<>> ELSE audio_buffer)
                       \o audio_queue)
    /\ (sys = "approach_4")
         => /\ \A k \in 1..Len(windows) : Consecutive(windows[k])
            /\ \A k \in 2..Len(windows) : windows[k - 1][1] < windows[k][1]
            /\ Consecutive(buffer \o Flatten(audio_queue))

\* two windows have been handed on while two more frames wait in the queue
C13_Witness ==
    /\ IsThreaded
    /\ Len(windows) >= 2
    /\ Len(audio_queue) >= 2

C15_ThreadJoined ==
    (IsThreaded /\ main_pc = "done") => proc_pc = "done"

\* C16: once the running flag has been cleared, the processing thread
\* leaves its loop; with the queue empty it does so after one get that times
\* out (from "get" the next step is the loop test, and the one after ends
\* the loop).
C16_CancellationEffective ==
    /\ (IsThreaded /\ proc_pc # "idle" /\ ~is_running) ~> (proc_pc = "done")
    /\ [][(IsThreaded /\ ~is_running /\ audio_queue = <<>>)
            => /\ proc_pc = "get" => proc_pc' \in {"get", "check"}
               /\ proc_pc = "check" => proc_pc' \in {"check", "done"}]_vars

\* the flag was cleared by stop_recording and the processing thread has ended
C16_Witness ==
    /\ IsThreaded
    /\ main_pc \in {"stopping", "done"}
    /\ ~is_running
    /\ proc_pc = "done"

\* C17 as stated: when run_realtime of main / main_simple has stopped, the
\* decoder holds no uncommitted text: a stop in the middle of an utterance
\* forced a final result out of it.
C17_ShutdownForcesFinal ==
    (IsGate /\ main_pc = "done") => ~recognizer.pending

\* C18 as stated: over any number of calls of stop_recording / cleanup, also
\* after a failed start, no stream is stopped or closed again once it has
\* been closed.
C18_CloseIdempotent ==
    stream # "misused"

\* C19 as stated: when the reads keep failing (MaxReadErrors failed reads
\* in a row) the loop of main / main_simple / simple_working has left the
\* running state.
C19_ReadFailureStops ==
    ((IsGate \/ sys = "simple_working") /\ ev.fails = MaxReadErrors)
        => (~is_running /\ main_pc # "loop")

\* C20 as stated: a window on which the detector's call raised leaves
\* current_language as it was and is transcribed under it, whatever the
\* threshold.
C20_DetectorFailureKeepsLanguage ==
    (sys = "main" /\ ev.op = "chunk" /\ ev.failed)
        => /\ current_language = ev.prev
           /\ ev.transcribed

\* C21: a failure of the decoder is recovered where it happens.  In the gated
\* programs a chunk whose decoder raised gives the empty text, nothing is
\* dispatched for it, and the loop goes on.  In realtime_working the sub-chunk
\* whose AcceptWaveform raised, and a FinalResult that raised, leave the
\* window's transcription as it was, and the loop goes on with the next
\* sub-chunk or window: what the window's other sub-chunks gave is kept.
C21_FailureRecoveredLocally ==
    /\ []((IsGate /\ ev.op = "chunk" /\ ev.raised)
           => /\ ~ev.dispatch
              /\ main_pc = "loop" /\ is_running /\ audio_buffer = 0)
    /\ [][(sys = "realtime_working" /\ proc_pc = "feed"
            /\ ev'.op = "sub" /\ ev'.werr /\ ~ev.werr)
           => /\ transcription' = transcription
              /\ dispatched' = dispatched
              /\ last_transcription' = last_transcription
              /\ proc_pc' \in {"feed", "final"}]_vars
    /\ [][(sys = "realtime_working" /\ proc_pc = "final"
            /\ ev'.op = "window" /\ ev'.raised)
           => /\ transcription' = transcription
              /\ ~ev'.final
              /\ proc_pc' \in {"check", "speak"}]_vars

\* C21 (as stated): a window on which the decoder raised is silence, nothing
\* is dispatched for it
C21_FailedWindowIsSilence ==
    (ev.op \in {"chunk", "window"} /\ ev.werr) => ~ev.dispatch

\* a window of realtime_working with a sub-chunk that raised after another one
\* had given a text, and the text was dispatched
C21_Witness ==
    /\ sys = "realtime_working"
    /\ ev.op = "window" /\ ev.werr /\ ~ev.raised
    /\ ev.dispatch /\ ev.best # <<>>

\* C22: the transcription of a window of realtime_working.  A non-empty
\* FinalResult supersedes whatever the sub-chunks gave.  Otherwise, with no
\* non-empty Result among the sub-chunks, it is the longest partial text seen;
\* and a non-empty Result replaces what was accumulated whatever its length, so
\* that after one the transcription is that text or a later partial, which is
\* never longer than the longest partial seen.
C22_Accumulation ==
    (sys = "realtime_working" /\ ev.op = "window"
     /\ proc_pc \in {"check", "speak"})
    => /\ ev.final => (transcription.kind = "final" /\ transcription.text # <<>>)
       /\ (~ev.final /\ ~ev.committed)
          => /\ transcription.text = ev.best
             /\ transcription.kind = (IF ev.best = <<>> THEN "none" ELSE "partial")
       /\ (~ev.final /\ ev.committed)
          => /\ transcription.text # <<>>
             /\ transcription.kind = "partial"
                => Len(transcription.text) <= Len(ev.best)

\* C22 (as stated): without a non-empty FinalResult the transcription is the
\* longest text seen: the longest partial, or a Result at least as long
C22_LongestPartialOrFinal ==
    (sys = "realtime_working" /\ ev.op = "window" /\ ~ev.final
     /\ proc_pc \in {"check", "speak"})
    => \/ transcription.text = ev.best
       \/ ev.committed /\ Len(transcription.text) >= Len(ev.best)

\* a window whose sub-chunks gave partial texts only, dispatched as the longest
C22_Witness ==
    /\ sys = "realtime_working"
    /\ ev.op = "window" /\ ~ev.final /\ ~ev.committed /\ ~ev.werr
    /\ Len(ev.best) > 3 /\ transcription.text = ev.best /\ ev.dispatch

\* C23 (as stated): the dispatch is fire-and-forget, the processing thread is
\* never held in the playback of a response while captured audio waits in the
\* queue
C23_FireAndForget ==
    ~(sys = "realtime_working" /\ proc_pc = "speak" /\ audio_queue # <<>>)

\* C24 (as stated): with threshold 0.8, a chunk of main detected as "en" at 0.9
\* while the language is "es" switches to "en", goes to a decoder that took no
\* audio before the switch, and what is dispatched for it is a final
\* transcript only (so that the utterance is dispatched once, not once per
\* chunk it spans).
C24_SwitchResetOneFinal ==
    (sys = "main" /\ confidence_threshold = 8 /\ ev.op = "chunk"
     /\ ev.prev = "es" /\ ev.lang = "en" /\ ev.conf = 9)
    => /\ current_language = "en"
       /\ ev.switched
       /\ ~ev.crossed
       /\ ev.dispatch => ev.kind = "final"

\* C25 (as stated): the windows of the threaded programs span W = 3 s of
\* samples each and every window starts half a window after the one before it
\* (so that 10 s of capture give 6 windows), and a window for which the
\* recognizer gave nothing reaches no dispatch.
C25_ThreeSecondWindowsHalfOverlap ==
    /\ (sys = "approach_4")
        => \A k \in 1..Len(windows) :
              /\ Len(windows[k]) = 3 * sample_rate
              /\ k > 1 => windows[k][1] - windows[k - 1][1] = (3 * sample_rate) \div 2
    /\ (sys = "realtime_working")
        => \A k \in 1..Len(windows) :
              /\ Len(windows[k]) * rt_chunk_size >= 3 * sample_rate
              /\ k > 1 => (windows[k][1] - windows[k - 1][1]) * rt_chunk_size
                              = (3 * sample_rate) \div 2
    /\ (sys = "realtime_working" /\ ev.op = "window"
         /\ ~ev.final /\ ~ev.committed /\ ev.best = <<>>)
        => ~ev.dispatch

\* C30 (as stated): every window realtime_working hands to the recognizer
\* holds at least 3 * sample_rate samples (of two bytes each)
C30_WindowAtLeastThreeSeconds ==
    (sys = "realtime_working")
        => \A k \in 1..Len(windows) :
              BufferLen(windows[k]) \div 2 >= 3 * sample_rate

\* C29 (as stated): in run_realtime of main and main_simple, with every read
\* returning chunk_size frames of two bytes, process_audio_chunk is called on
\* a buffer of exactly 4 chunks, once per 4 chunks read, and the buffer is
\* empty afterwards.
C29_OncePerFourChunks ==
    (IsGate /\ ev.op \in {"chunk", "empty"})
        => /\ ev.chunks = 4
           /\ audio_buffer = 0

\* C28 (as stated): the gate of SimpleRealTimeProcessor.process_audio is the
\* detector's rule: a confidence passes it exactly when it is at least the
\* detector's confidence_threshold (the threshold itself included).
C28_GateIsDetectorRule ==
    (sys = "approach_4")
        => \A c \in 0..10 : a4_gate(c) <=> is_confidence_high(c)

\* C26: in the threaded programs a step of the audio callback writes the
\* queue only (besides the device's own frame counter): it leaves
\* current_language, the running flag and everything the processing thread
\* owns as they were; a step of the processing thread leaves the running
\* flag, the stream and the main thread's position as they were and takes at
\* most the head off the queue; and a step that changes current_language is a
\* step of the processing thread.
C26_LanguageOwnedByProcessing ==
    [][/\ (IsThreaded /\ captured' # captured)
          => /\ current_language' = current_language
             /\ is_running' = is_running
             /\ \/ audio_queue' = audio_queue
                \/ /\ is_running
                   /\ Len(audio_queue') = Len(audio_queue) + 1
                   /\ SubSeq(audio_queue', 1, Len(audio_queue)) = audio_queue
             /\ UNCHANGED <<stream, main_pc, audio_buffer, last_transcription,
                            dispatched, proc_pc, buffer, windows, transcription,
                            sub_i, recognizer>>
       /\ (IsThreaded /\ proc_pc # "idle"
           /\ (proc_pc' # proc_pc \/ sub_i' # sub_i))
          => /\ UNCHANGED <<captured, is_running, stream, main_pc>>
             /\ \/ audio_queue' = audio_queue
                \/ audio_queue # <<>> /\ audio_queue' = Tail(audio_queue)
       /\ (IsThreaded /\ current_language' # current_language)
          => (proc_pc # "idle" /\ captured' = captured)]_vars

\* the callback has put a frame on the queue while the processing thread was
\* between two windows
C26_Witness ==
    /\ sys = "approach_4"
    /\ is_running
    /\ Len(windows) >= 1
    /\ audio_queue # <<>>
    /\ proc_pc = "get"

\* C27: for every text typed in text mode, _detect_from_text returns a
\* confidence between 0 and 1 and a language whose score (matches / patterns)
\* no language of the table exceeds; with no match at all it returns "en" at
\* 0.5.  Without a text hint, as in process_audio_chunk of main_simple,
\* detect_language_simple returns the detector's current_language at 0.7.
C27_BestCandidate ==
    /\ (sys = "main_simple" /\ ev.op = "text")
        => LET t == text_lower(ev.text)
               den(l) == Len(patterns[l])
               Langs == {PatternOrder[i] : i \in 1..Len(PatternOrder)}
           IN  /\ 0 <= ev.num /\ ev.num <= ev.den /\ ev.den > 0
               /\ ev.lang \in Langs
               /\ \A l \in Langs :
                      pattern_score(l, t) * den(ev.lang)
                          <= pattern_score(ev.lang, t) * den(l)
               /\ (\A l \in Langs : pattern_score(l, t) = 0)
                      => (ev.lang = "en" /\ 2 * ev.num = ev.den)
    /\ (sys = "main_simple" /\ ev.op = "chunk")
        => (ev.lang = det_language /\ ev.conf = 7)

\* a text in which two languages score, the second of the table wins, and
\* twice its score is more than 1
C27_Witness ==
    /\ sys = "main_simple"
    /\ ev.op = "text"
    /\ ev.lang = "es"
    /\ pattern_score("en", text_lower(ev.text)) > 0
    /\ 2 * pattern_score("es", text_lower(ev.text)) > Len(patterns["es"])
    /\ ev.num = ev.den
    /\ ev.text # text_lower(ev.text)

\* C31 (as stated): the accumulation buffers are bounded.  In approach_4 the
\* buffer always holds fewer than a window plus one frame of samples; in
\* realtime_working, at the end of every iteration of the loop, the byte
\* buffer is below buffer_size plus one frame, whatever happened in the
\* iteration.
C31_BufferBounded ==
    /\ (sys = "approach_4")
        => Len(buffer) < a4_buffer_size + rt_chunk_size
    /\ (sys = "realtime_working" /\ proc_pc \in {"check", "get", "done"})
        => BufferLen(audio_buffer) < rw_buffer_size + FrameBytes

\* C32: in approach_4 no sample is lost between windows.  Samples carry their
\* position in the dequeued stream, W is a4_buffer_size.  Every window has W
\* samples; the k-th window (k = 1, 2, ...) is the samples
\* (k-1)*W/2 .. (k-1)*W/2 + W - 1; the buffer goes on where the windows' steps
\* have got to; and every sample before the end of the last window is in one
\* or two windows.
C32_NoSampleLost ==
    (sys = "approach_4")
        => LET W == a4_buffer_size
               n == Len(windows)
               InWindow(x, k) == \E i \in 1..Len(windows[k]) : windows[k][i] = x
           IN  /\ \A k \in 1..n :
                      windows[k] = [i \in 1..W |-> (k - 1) * (W \div 2) + i - 1]
               /\ \A i \in 1..Len(buffer) :
                      buffer[i] = n * (W \div 2) + i - 1
               /\ n > 0
                  => \A x \in 0..((n - 1) * (W \div 2) + W - 1) :
                        Cardinality({k \in 1..n : InWindow(x, k)}) \in {1, 2}

\* three windows have been handed on and the buffer holds samples again
C32_Witness ==
    /\ sys = "approach_4"
    /\ Len(windows) >= 3
    /\ buffer # <<>>
    /\ Len(buffer) > a4_buffer_size \div 2

\* C33 (as stated): once run_realtime of a threaded program has returned, no
\* step gives a sub-chunk to a decoder or asks it for FinalResult, no step
\* dispatches a transcript, and no step hands a window to the callback.
C33_QuietAfterReturn ==
    [][(IsThreaded /\ main_pc = "done")
          => /\ sub_i' = sub_i
             /\ ~(proc_pc = "final" /\ proc_pc' # "final")
             /\ dispatched' = dispatched
             /\ windows' = windows]_vars

\* C34: over a full run of realtime_working.main (run_realtime, then the
\* finally block of main) and of LanguageSwitchSystem.run_realtime, the audio
\* backend is terminated at most once and each opened stream is closed at
\* most once.  (For main the run ends with the cleanup of run_realtime's own
\* finally block; a state after a further cleanup call is left out.)
C34_ReleasedOnce ==
    /\ (sys = "realtime_working" /\ main_pc = "done")
        => (audio # "misused" /\ stream # "misused")
    /\ (sys = "main" /\ ev.op # "cleanup")
        => (audio # "misused" /\ stream # "misused")

\* C34, the part on LanguageSwitchSystem.run_realtime alone
C34_MainReleasedOnce ==
    (sys = "main" /\ ev.op # "cleanup")
        => (audio # "misused" /\ stream # "misused")

\* C35: when the speech recognizer is unavailable (no model, recognizer is
\* None) the realtime loop of main, main_simple and realtime_working
\* dispatches nothing: no transcript is printed as speech or spoken.
C35_UnavailableDispatchesNothing ==
    (sys \in {"main", "main_simple", "realtime_working"} /\ ~recognizer.loaded)
        => (dispatched = <<>> /\ ~ev.dispatch)

\* C35, without SimpleLanguageSwitchSystem
C35_UnavailableSilentElsewhere ==
    (sys \in {"main", "realtime_working"} /\ ~recognizer.loaded)
        => (dispatched = <<>> /\ ~ev.dispatch)

\* C36: in run_text_mode, after a 'set <lang>' command (supported code or
\* not) the system's current_language equals the detector's current_language
\* and is a key of supported_languages.
C36_SetKeepsLanguagesEqual ==
    (sys = "main_simple" /\ ev.op = "set")
        => (current_language = det_language /\ current_language \in Languages)

\* C36 for the supported codes alone
C36_SetSupported ==
    (sys = "main_simple" /\ ev.op = "set" /\ ev.lang \in Languages)
        => (current_language = det_language /\ current_language = ev.lang)

\* C37: in approach_4, a window for which the recognizer returns a text of
\* more than 3 characters is dispatched: the recognizer is invoked on the
\* window and speak_text is called with the transcript.
C37_LongTextDispatched ==
    (sys = "approach_4" /\ ev.op = "callback" /\ Len(ev.text) > 3)
        => /\ ev.transcribed
           /\ ev.dispatch
           /\ dispatched # <<>>
           /\ dispatched[Len(dispatched)] = ev.text

\* C38: the conversion between 16-bit PCM and normalized floats is lossless
\* and free of overflow: a 16-bit sample x normalized to x / 32768 comes
\* back as x, and for every float sample in [-1, 1], 1.0 included, the
\* 16-bit value stored is the sample times 32768 cut towards zero, within
\* [-32768, 32767], not that value modulo 2^16.
C38_LosslessNoOverflow ==
    (sys = "main" /\ ev.op = "file" /\ ev.transcribed)
        => /\ \A x \in Int16Samples :
                  ev.sample = bytes_to_tensor(x) => ev.pcm = x
           /\ trunc_scaled(ev.sample) \in Int16
           /\ ev.pcm = trunc_scaled(ev.sample)

\* C38, the round trip of the 16-bit samples alone
C38_RoundTrip ==
    (sys = "main" /\ ev.op = "file" /\ ev.transcribed)
        => \A x \in Int16Samples :
               ev.sample = bytes_to_tensor(x) => ev.pcm = x

====
